---- MODULE Spec2Model ----
(***************************************************************************)
(* matrix-migrate: one run of src/src/main.rs.                             *)
(*                                                                         *)
(* The run logs two sessions in (from_c, the source account; to_c, the     *)
(* destination account), synchronises both once, partitions the source's   *)
(* joined rooms, drives invites / accepts / power-level adjustments, waits *)
(* in a resync loop until no invite is awaited, optionally leaves the      *)
(* rooms with the source account, and logs out.                            *)
(*                                                                         *)
(* The homeserver is the environment.  Room membership of both accounts is *)
(* kept as server state (srvFrom, srvTo) because the program changes it    *)
(* and reads it back through later syncs.  Member records (presence and    *)
(* power level of the two accounts inside a room) and the room name are    *)
(* read by the program once per room and phase; they are drawn from        *)
(* bounded sets at the read.  fromView / toView hold the records the       *)
(* running task has read (the locals me, new_acc of the task).             *)
(*                                                                         *)
(* Every .await? of main is a step that can end the run (pc = "failed",    *)
(* err names the call).  Requests whose error the code only logs (invite,  *)
(* update_power_levels) go on.  A successful join is entered in to_c's     *)
(* store by the client library at once; everything else reaches the store  *)
(* of to_c with a sync.  The staggered sleeps of the tasks only delay      *)
(* them: the tasks of one join_all / try_join_all run in any order.        *)
(* display_name() is read for logging only and is left out.                *)
(*                                                                         *)
(* Specifications: Spec is one whole run in which only the program changes *)
(* the memberships.  SpecEq applies ensure_power_levels repeatedly to one  *)
(* store of from_c.  SpecLoop is the while loop of main from the states in *)
(* which it can be entered, other sessions of the destination account      *)
(* included, with the fairness its termination rests on.  SpecRerun is a   *)
(* whole run started after an earlier run was cut off inside leave_room.   *)
(***************************************************************************)
EXTENDS Integers, FiniteSets

\* ---------------------------------------------------------------- bounds
NumRooms == 2
MaxLevel == 1
MaxRounds == 2
MaxCalls == 2

Rooms == 1..NumRooms
\* PrivilegeLevel is an integer with a total order; only comparisons and
\* copies of it occur in the program.
Levels == 0..MaxLevel
Ops == {"invite", "join", "setPrivilege", "leave", "setDirect"}

VARIABLES
    args,               \* Args: dryrun, leave_rooms, rooms, rooms_excluded
    srvFrom,            \* server: membership of the source account per room
    srvTo,              \* server: membership of the destination account per room
    fromJoined,         \* from_c store: from_c.joined_rooms() (sync_once, never refreshed)
    toStore,            \* to_c store: room state per room, refreshed by to_sync_stream
    fromView,           \* ensure_power_levels: room and member records of the last task
    toView,             \* leave_room: room, member records and name of the last iteration
    pc,                 \* position of main
    err,                \* the error main returned with, if any
    all_prev_rooms, already_invited, to_invite, invites_to_accept,
    eplTodo,            \* ensure_power_levels(already_invited): tasks not yet run
    accTodo,            \* accept_invites: rooms of the for loop not yet visited
    pending,            \* accept_invites: its local `pending`
    invTodo,            \* send_invites: tasks not yet run
    failed_invites,
    epl2Todo,           \* ensure_power_levels(to_invite): tasks not yet run
    invites_awaiting,
    rounds,             \* completed iterations of the while loop
    leaveTodo,          \* leave_room: rooms of the for loop not yet visited
    directTodo,         \* leave_room: room left, is_direct step still ahead
    issued,             \* per room and operation: requests sent to the server
    setLevel            \* ensure_power_levels: level the last task handed to
                        \* update_power_levels, NoLevel when it sent no request

planVars == <<all_prev_rooms, already_invited, to_invite, invites_to_accept>>
firstVars == <<eplTodo, accTodo, pending, invTodo, failed_invites, epl2Todo>>
loopVars == <<invites_awaiting, rounds>>
leaveVars == <<leaveTodo, directTodo>>
srvVars == <<srvFrom, srvTo>>
storeVars == <<fromJoined, toStore, fromView, toView>>
logVars == <<issued, setLevel>>
vars == <<args, srvVars, storeVars, pc, err, planVars, firstVars, loopVars,
          leaveVars, logVars>>

\* A member view: what get_member(self) / get_member(new user) returned.
NoView == [room |-> 0, meIn |-> FALSE, newIn |-> FALSE, me |-> 0, new |-> 0, named |-> FALSE]
\* The reads happen in the order of the code: the new account's record is
\* read when the own record was found, the power levels when both were found.
\* What was not read is left at its default.
MemberViewsOf(r) ==
    { [NoView EXCEPT !.room = r],
      [NoView EXCEPT !.room = r, !.meIn = TRUE] }
    \cup { [NoView EXCEPT !.room = r, !.meIn = TRUE, !.newIn = TRUE,
                          !.me = a, !.new = b] : a \in Levels, b \in Levels }

NoLevel == -1

NoErr == [at |-> "none", room |-> 0]
Fail(at, r) == [at |-> at, room |-> r]

Bump(r, op) == [issued EXCEPT ![r][op] = @ + 1]

\* ------------------------------------------------------------------ Init
\* Args::parse() and the state of the homeserver when the program starts.
Init ==
    /\ args \in [dryrun : BOOLEAN, leave_rooms : BOOLEAN,
                 rooms : SUBSET Rooms, rooms_excluded : SUBSET Rooms]
    /\ srvFrom \in [Rooms -> {"join", "none"}]
    /\ srvTo \in [Rooms -> {"none", "invite", "join"}]
    /\ fromJoined = {}
    /\ toStore = [r \in Rooms |-> "none"]
    /\ fromView = NoView
    /\ toView = NoView
    /\ pc = "login_from"
    /\ err = NoErr
    /\ all_prev_rooms = {} /\ already_invited = {} /\ to_invite = {}
    /\ invites_to_accept = {}
    /\ eplTodo = {} /\ accTodo = {} /\ pending = {} /\ invTodo = {}
    /\ failed_invites = {} /\ epl2Todo = {}
    /\ invites_awaiting = {} /\ rounds = 0
    /\ leaveTodo = {} /\ directTodo = 0
    /\ issued = [r \in Rooms |-> [op \in Ops |-> 0]]
    /\ setLevel = NoLevel

\* ------------------------------------------------- login and first sync
\* main, lines 135-141: get_client(from ...).await?
LoginFrom ==
    /\ pc = "login_from"
    /\ \E ok \in BOOLEAN :
        IF ok THEN pc' = "login_to" /\ err' = err
        ELSE pc' = "failed" /\ err' = Fail("login_from", 0)
    /\ UNCHANGED <<args, srvVars, storeVars, planVars, firstVars, loopVars,
                   leaveVars, logVars>>

\* main, lines 143-149: get_client(to ...).await?
LoginTo ==
    /\ pc = "login_to"
    /\ \E ok \in BOOLEAN :
        IF ok THEN pc' = "sync" /\ err' = err
        ELSE pc' = "failed" /\ err' = Fail("login_to", 0)
    /\ UNCHANGED <<args, srvVars, storeVars, planVars, firstVars, loopVars,
                   leaveVars, logVars>>

\* InitialSync going on after a failed sync
InitialSync_GoesOn ==
    /\ pc = "sync"
    /\ \E ok \in BOOLEAN :
        /\ fromJoined' = {r \in Rooms : srvFrom[r] = "join"}
        /\ toStore' = srvTo
        /\ pc' = "plan"
        /\ err' = IF ok THEN err ELSE Fail("sync", 0)
    /\ UNCHANGED <<args, srvVars, fromView, toView, planVars, firstVars,
                   loopVars, leaveVars, logVars>>

\* main, lines 159-161: try_join!(from_c.sync_once, to_sync_stream.next())?
\* The first sync of a session returns the rooms the server holds for it.
InitialSync ==
    /\ pc = "sync"
    /\ \E ok \in BOOLEAN :
        IF ok
        THEN /\ fromJoined' = {r \in Rooms : srvFrom[r] = "join"}
             /\ toStore' = srvTo
             /\ pc' = "plan" /\ err' = err
        ELSE /\ pc' = "failed" /\ err' = Fail("sync", 0)
             /\ UNCHANGED <<fromJoined, toStore>>
    /\ UNCHANGED <<args, srvVars, fromView, toView, planVars, firstVars,
                   loopVars, leaveVars, logVars>>

\* --------------------------------------------------------- reconciliation
\* AllPrevRooms with the allow-list taking precedence over the deny-list
AllPrevRooms_AllowFirst(joined, excluded, allowed) ==
    { r \in joined : IF allowed # {} THEN r \in allowed ELSE ~(r \in excluded) }

\* main, lines 165-177: the filter_map over from_c.joined_rooms()
AllPrevRooms(joined, excluded, allowed) ==
    { r \in joined :
        /\ ~(r \in excluded)
        /\ ~(allowed # {} /\ ~(r \in allowed)) }

\* to_c.joined_rooms() / to_c.invited_rooms()
JoinedRooms(store) == { r \in Rooms : store[r] = "join" }
InvitedRooms(store) == { r \in Rooms : store[r] = "invite" }

\* main, lines 179-188: joined rooms chained with invited rooms
AllNewRooms(store) == JoinedRooms(store) \cup InvitedRooms(store)

\* main, lines 190-192: partition(|r| all_new_rooms.contains(r))
AlreadyInvited(prev, new) == { r \in prev : r \in new }

\* ToInvite keeping the rooms the destination already knows
ToInvite_All(prev, new) == prev

ToInvite(prev, new) == { r \in prev : ~(r \in new) }

\* InvitesToAccept without the restriction to all_prev_rooms
InvitesToAccept_Unfiltered(store, prev) == InvitedRooms(store)

\* main, lines 194-205: invited rooms that are in all_prev_rooms
InvitesToAccept(store, prev) == { r \in InvitedRooms(store) : r \in prev }

\* main, lines 165-219: the plan and the start of the three joined futures
Plan ==
    /\ pc = "plan"
    /\ LET prev == AllPrevRooms(fromJoined, args.rooms_excluded, args.rooms)
           new == AllNewRooms(toStore)
       IN /\ all_prev_rooms' = prev
          /\ already_invited' = AlreadyInvited(prev, new)
          /\ to_invite' = ToInvite(prev, new)
          /\ invites_to_accept' = InvitesToAccept(toStore, prev)
          /\ eplTodo' = AlreadyInvited(prev, new)
          /\ accTodo' = InvitesToAccept(toStore, prev)
          /\ invTodo' = ToInvite(prev, new)
          /\ epl2Todo' = ToInvite(prev, new)
    /\ pending' = {}
    /\ failed_invites' = {}
    /\ pc' = "first"
    /\ UNCHANGED <<args, srvVars, storeVars, err, loopVars, leaveVars, logVars>>

\* ------------------------------------------------------ ensure_power_levels
\* from_c.get_room(room_id): the room is in the store from_c filled at sync_once
FromGetRoom(r) == r \in fromJoined

\* NeedsRaise with < in place of <=
NeedsRaise_Strict(v) == v.meIn /\ v.newIn /\ ~(v.me < v.new)

\* ensure_power_levels, lines 305-320: both members found and
\* not (my_power_level <= new_acc.power_level())
NeedsRaise(v) == v.meIn /\ v.newIn /\ ~(v.me <= v.new)

\* RaiseTo handing over the new account's own level
RaiseTo_Target(v) == v.new

\* ensure_power_levels, line 329: the level handed to update_power_levels
RaiseTo(v) == v.me

\* ensure_power_levels, lines 315-335 for one room whose member records are v.
\* A rejected update_power_levels is only logged (lines 328-333).
Equalize(r, v) ==
    IF NeedsRaise(v) /\ ~args.dryrun
    THEN /\ issued' = Bump(r, "setPrivilege")
         /\ setLevel' = RaiseTo(v)
    ELSE /\ issued' = issued
         /\ setLevel' = NoLevel

\* ensure_power_levels, lines 305 and 310: get_member(..).await? returned an
\* error; try_join_all, try_join! and main return it
MemberLookupFailed(r) ==
    /\ pc' = "failed"
    /\ err' = Fail("get_member", r)

\* ensure_power_levels, lines 297-336: one task of try_join_all.  The member
\* records of the room are those of from_c's store.
EnsureTask(r) ==
    IF FromGetRoom(r)
    THEN \E ok \in BOOLEAN :
            IF ok
            THEN \E v \in MemberViewsOf(r) :
                    /\ fromView' = v
                    /\ Equalize(r, v)
                    /\ UNCHANGED <<pc, err>>
            ELSE /\ MemberLookupFailed(r)
                 /\ UNCHANGED <<fromView, logVars>>
    ELSE UNCHANGED <<fromView, logVars, pc, err>>

\* main, line 222: ensure_power_levels(&ensure_c, ensure_user, &already_invited)
EnsureAlready(r) ==
    /\ pc = "first"
    /\ r \in eplTodo
    /\ EnsureTask(r)
    /\ eplTodo' = eplTodo \ {r}
    /\ UNCHANGED <<args, srvVars, fromJoined, toStore, toView, planVars,
                   accTodo, pending, invTodo, failed_invites, epl2Todo,
                   loopVars, leaveVars>>

\* main, line 228: ensure_power_levels(&inviter_c, to_user, &to_invite), which
\* starts when send_invites has returned
EnsureInvited(r) ==
    /\ pc = "first"
    /\ invTodo = {}
    /\ r \in epl2Todo
    /\ EnsureTask(r)
    /\ epl2Todo' = epl2Todo \ {r}
    /\ UNCHANGED <<args, srvVars, fromJoined, toStore, toView, planVars,
                   eplTodo, accTodo, pending, invTodo, failed_invites,
                   loopVars, leaveVars>>

\* ------------------------------------------------------------ send_invites
\* The server's answer to an accepted invite of the destination account.
Invited(r) == [srvTo EXCEPT ![r] = IF @ = "none" THEN "invite" ELSE @]

\* send_invites, lines 380-400: one task of join_all
SendInvite(r) ==
    /\ pc = "first"
    /\ r \in invTodo
    /\ invTodo' = invTodo \ {r}
    /\ IF ~FromGetRoom(r)
       THEN /\ failed_invites' = failed_invites \cup {r}
            /\ UNCHANGED <<srvTo, issued>>
       ELSE IF args.dryrun
       THEN UNCHANGED <<srvTo, issued, failed_invites>>
       ELSE \E ok \in BOOLEAN :
              /\ issued' = Bump(r, "invite")
              /\ IF ok
                 THEN srvTo' = Invited(r) /\ failed_invites' = failed_invites
                 ELSE srvTo' = srvTo /\ failed_invites' = failed_invites \cup {r}
    /\ UNCHANGED <<args, srvFrom, storeVars, pc, err, planVars, eplTodo, accTodo,
                   pending, epl2Todo, loopVars, leaveVars, setLevel>>

\* ---------------------------------------------------------- accept_invites
\* ToGetRoom finding only the rooms the store holds as joined
ToGetRoom_JoinedOnly(r) == toStore[r] = "join"

\* to_c.get_room(room_id): any room the store of to_c holds
ToGetRoom(r) == toStore[r] # "none"

\* accept_invites, line 365: invited.join().await? returned an error
JoinRejected(r) ==
    /\ pc' = "failed"
    /\ err' = Fail("join", r)
    /\ UNCHANGED <<srvTo, toStore>>

\* accept_invites, lines 348-366: one iteration of the for loop
AcceptStep(r) ==
    /\ pc \in {"first", "retry_accept"}
    /\ r \in accTodo
    /\ accTodo' = accTodo \ {r}
    /\ IF ~ToGetRoom(r)
       THEN /\ pending' = pending \cup {r}
            /\ UNCHANGED <<srvTo, toStore, pc, err, issued>>
       ELSE IF args.dryrun
       THEN UNCHANGED <<srvTo, toStore, pc, err, issued, pending>>
       ELSE \E ok \in BOOLEAN :
              /\ issued' = Bump(r, "join")
              /\ pending' = pending
              /\ IF ok
                 THEN /\ srvTo' = [srvTo EXCEPT ![r] = "join"]
                      /\ toStore' = [toStore EXCEPT ![r] = "join"]
                      /\ UNCHANGED <<pc, err>>
                 ELSE JoinRejected(r)
    /\ UNCHANGED <<args, srvFrom, fromJoined, fromView, toView, planVars, eplTodo,
                   invTodo, failed_invites, epl2Todo, loopVars, leaveVars, setLevel>>

\* InvitesAwaiting without the rooms that were invited in this run
InvitesAwaiting_OnlyReturned(notYet, toInv, failed) == notYet

\* InvitesAwaiting keeping the rooms whose invite failed
InvitesAwaiting_KeepFailed(notYet, toInv, failed) == notYet \cup toInv

\* main, lines 229-243: to_invite without the failed invites, chained after
\* the rooms accept_invites returned
InvitesAwaiting(notYet, toInv, failed) ==
    notYet \cup { r \in toInv : ~(r \in failed) }

\* main, lines 221-245: try_join! of the three futures has returned Ok
FirstDone ==
    /\ pc = "first"
    /\ eplTodo = {} /\ accTodo = {} /\ invTodo = {} /\ epl2Todo = {}
    /\ invites_awaiting' = InvitesAwaiting(pending, to_invite, failed_invites)
    /\ fromView' = NoView
    /\ setLevel' = NoLevel
    /\ pc' = "loop"
    /\ UNCHANGED <<args, srvVars, fromJoined, toStore, toView, err, planVars,
                   firstVars, rounds, leaveVars, issued>>

\* ------------------------------------------------------------- resync loop
\* SyncResults of a sync stream that never brings anything new
SyncResults_Stale == { toStore }

\* to_sync_stream.next(): per room the store keeps what it had or takes what
\* the server holds now (a change may not have reached this sync yet).
SyncResults ==
    { s \in [Rooms -> {"none", "invite", "join"}] :
        \A r \in Rooms : s[r] \in {toStore[r], srvTo[r]} }

\* LoopGoesOn as the condition of a loop that syncs before it tests the list
LoopGoesOn_SyncFirst == ~args.dryrun

\* LoopGoesOn without the dry-run test
LoopGoesOn_NoDryRun == invites_awaiting # {}

\* main, line 246: the condition of the while loop
LoopGoesOn == invites_awaiting # {} /\ ~args.dryrun

\* main, lines 246-250: the sync of one iteration, then accept_invites starts
Resync ==
    /\ pc = "loop"
    /\ LoopGoesOn
    /\ rounds < MaxRounds
    /\ \E ok \in BOOLEAN :
        IF ok
        THEN /\ toStore' \in SyncResults
             /\ accTodo' = invites_awaiting
             /\ pending' = {}
             /\ pc' = "retry_accept" /\ err' = err
        ELSE /\ pc' = "failed" /\ err' = Fail("resync", 0)
             /\ UNCHANGED <<toStore, accTodo, pending>>
    /\ UNCHANGED <<args, srvVars, fromJoined, fromView, toView, planVars, eplTodo,
                   invTodo, failed_invites, epl2Todo, loopVars, leaveVars, logVars>>

\* RetryDone dropping what accept_invites returned: the list stays as it was
RetryDone_KeepsList ==
    /\ pc = "retry_accept"
    /\ accTodo = {}
    /\ invites_awaiting' = invites_awaiting
    /\ rounds' = rounds + 1
    /\ pc' = "loop"
    /\ UNCHANGED <<args, srvVars, storeVars, err, planVars, firstVars, leaveVars,
                   logVars>>

\* main, lines 249-250: accept_invites returned, invites_awaiting is assigned
RetryDone ==
    /\ pc = "retry_accept"
    /\ accTodo = {}
    /\ invites_awaiting' = pending
    /\ rounds' = rounds + 1
    /\ pc' = "loop"
    /\ UNCHANGED <<args, srvVars, storeVars, err, planVars, firstVars, leaveVars,
                   logVars>>

\* main, lines 246-277: the loop ends; leave phase or straight to logout
LoopExit ==
    /\ pc = "loop"
    /\ ~LoopGoesOn
    /\ pc' = IF args.leave_rooms THEN "leave_sync" ELSE "logout"
    /\ UNCHANGED <<args, srvVars, storeVars, err, planVars, firstVars, loopVars,
                   leaveVars, logVars>>

\* -------------------------------------------------------------- leave phase
\* ToRemove taking every room the store of to_c holds, invited ones too
ToRemove_Known(prev, store) == { r \in prev : r \in AllNewRooms(store) }

\* main, lines 263-272: rooms of all_prev_rooms that to_c.joined_rooms() holds
ToRemove(prev, store) == { r \in prev : r \in JoinedRooms(store) }

\* main, lines 261-274: sync, then leave_room is called with to_remove
LeaveSync ==
    /\ pc = "leave_sync"
    /\ \E ok \in BOOLEAN :
        IF ok
        THEN /\ \E s \in SyncResults :
                  /\ toStore' = s
                  /\ leaveTodo' = ToRemove(all_prev_rooms, s)
             /\ pc' = "leave" /\ err' = err
        ELSE /\ pc' = "failed" /\ err' = Fail("resync", 0)
             /\ UNCHANGED <<toStore, leaveTodo>>
    /\ UNCHANGED <<args, srvVars, fromJoined, fromView, toView, planVars, firstVars,
                   loopVars, directTodo, logVars>>

\* MayLeave without the power-level comparison
MayLeave_NoLevels(v) == v.meIn /\ v.newIn

\* leave_room, lines 425-440: both members found and
\* not (me.power_level() > new_acc.power_level())
MayLeave(v) == v.meIn /\ v.newIn /\ ~(v.me > v.new)

\* leave_room, line 458: joined.name().is_none()
WantsDirect(v) == ~v.named

\* leave_room, lines 450-454: leave().await? returned an error
LeaveRejected(r) ==
    /\ pc' = "failed"
    /\ err' = Fail("leave", r)
    /\ UNCHANGED <<srvFrom, directTodo>>

\* leave_room, lines 416-455: one iteration of the for loop up to the leave.
\* The member records and the name are those of to_c's store.
LeaveStep(r) ==
    /\ pc = "leave"
    /\ directTodo = 0
    /\ r \in leaveTodo
    /\ leaveTodo' = leaveTodo \ {r}
    /\ IF ~ToGetRoom(r)
       THEN UNCHANGED <<srvFrom, toView, pc, err, directTodo, issued>>
       ELSE \E found \in BOOLEAN :
              IF ~found
              THEN /\ MemberLookupFailed(r)
                   /\ UNCHANGED <<srvFrom, toView, directTodo, issued>>
              ELSE \E v \in MemberViewsOf(r) :
                IF ~MayLeave(v) \/ args.dryrun
                THEN /\ toView' = v
                     /\ UNCHANGED <<srvFrom, pc, err, directTodo, issued>>
                ELSE \E ok \in BOOLEAN :
                       /\ issued' = Bump(r, "leave")
                       /\ IF ok
                          THEN \E named \in BOOLEAN :
                                 LET w == [v EXCEPT !.named = named]
                                 IN /\ toView' = w
                                    /\ srvFrom' = [srvFrom EXCEPT ![r] = "leave"]
                                    /\ directTodo' = IF WantsDirect(w) THEN r ELSE 0
                                    /\ UNCHANGED <<pc, err>>
                          ELSE /\ toView' = v
                               /\ LeaveRejected(r)
    /\ UNCHANGED <<args, srvTo, fromJoined, toStore, fromView, planVars, firstVars,
                   loopVars, setLevel>>

\* leave_room, lines 458-468: set_is_direct(true) on to_c's room
SetDirect ==
    /\ pc = "leave"
    /\ directTodo # 0
    /\ issued' = Bump(directTodo, "setDirect")
    /\ directTodo' = 0
    /\ \E ok \in BOOLEAN :
        IF ok THEN UNCHANGED <<pc, err>>
        ELSE pc' = "failed" /\ err' = Fail("setDirect", directTodo)
    /\ UNCHANGED <<args, srvVars, storeVars, planVars, firstVars, loopVars,
                   leaveTodo, setLevel>>

\* leave_room, line 471: the for loop is over
LeaveDone ==
    /\ pc = "leave"
    /\ leaveTodo = {} /\ directTodo = 0
    /\ toView' = NoView
    /\ pc' = "logout"
    /\ UNCHANGED <<args, srvVars, fromJoined, toStore, fromView, err, planVars,
                   firstVars, loopVars, leaveVars, logVars>>

\* main, lines 279-284: both sessions log out
Logout ==
    /\ pc = "logout"
    /\ \E ok \in BOOLEAN :
        IF ok THEN pc' = "done" /\ err' = err
        ELSE pc' = "failed" /\ err' = Fail("logout", 0)
    /\ UNCHANGED <<args, srvVars, storeVars, planVars, firstVars, loopVars,
                   leaveVars, logVars>>

\* ------------------------------------------ ensure_power_levels, repeated
\* ensure_power_levels called again for the room of fromView while from_c's
\* store is the same (from_c syncs once, main line 159, and ensure_power_levels
\* reads the member records from that store).
EqualizeAgain ==
    /\ pc = "equalize"
    /\ fromView.room \in Rooms
    /\ issued[fromView.room]["setPrivilege"] < MaxCalls
    /\ IF FromGetRoom(fromView.room)
       THEN Equalize(fromView.room, fromView)
       ELSE UNCHANGED logVars
    /\ UNCHANGED <<args, srvVars, storeVars, pc, err, planVars, firstVars,
                   loopVars, leaveVars>>

\* A store of from_c after sync_once, with the member records of one room.
InitEq ==
    /\ args \in [dryrun : BOOLEAN, leave_rooms : {FALSE},
                 rooms : {{}}, rooms_excluded : {{}}]
    /\ fromJoined \in SUBSET Rooms
    /\ srvFrom = [r \in Rooms |-> IF r \in fromJoined THEN "join" ELSE "none"]
    /\ srvTo \in [Rooms -> {"invite", "join"}]
    /\ toStore = srvTo
    /\ fromView \in UNION { MemberViewsOf(r) : r \in Rooms }
    /\ toView = NoView
    /\ pc = "equalize"
    /\ err = NoErr
    /\ all_prev_rooms = {} /\ already_invited = {} /\ to_invite = {}
    /\ invites_to_accept = {}
    /\ eplTodo = {} /\ accTodo = {} /\ pending = {} /\ invTodo = {}
    /\ failed_invites = {} /\ epl2Todo = {}
    /\ invites_awaiting = {} /\ rounds = 0
    /\ leaveTodo = {} /\ directTodo = 0
    /\ issued = [r \in Rooms |-> [op \in Ops |-> 0]]
    /\ setLevel = NoLevel

NextEq == EqualizeAgain

SpecEq == InitEq /\ [][NextEq]_vars

Next ==
    \/ LoginFrom
    \/ LoginTo
    \/ InitialSync
    \/ Plan
    \/ \E r \in Rooms : EnsureAlready(r)
    \/ \E r \in Rooms : SendInvite(r)
    \/ \E r \in Rooms : EnsureInvited(r)
    \/ \E r \in Rooms : AcceptStep(r)
    \/ FirstDone
    \/ Resync
    \/ RetryDone
    \/ LoopExit
    \/ LeaveSync
    \/ \E r \in Rooms : LeaveStep(r)
    \/ SetDirect
    \/ LeaveDone
    \/ Logout

Spec == Init /\ [][Next]_vars

\* ------------------------------------------------- the while loop on its own
\* The state in which main reaches the while loop of line 246 in a run that
\* is not a dry run: every room of to_invite was unknown to to_c at the plan,
\* the awaited rooms are those whose invite the server accepted, and since
\* then the destination account may have accepted an invite from another of
\* its sessions (srvTo[r] = "join" while the store of to_c has not seen it).
InitLoop ==
    /\ args \in [dryrun : {FALSE}, leave_rooms : BOOLEAN,
                 rooms : {{}}, rooms_excluded : {{}}]
    /\ fromJoined = Rooms
    /\ srvFrom = [r \in Rooms |-> "join"]
    /\ all_prev_rooms = Rooms
    /\ to_invite \in SUBSET Rooms
    /\ already_invited = Rooms \ to_invite
    /\ invites_to_accept = {}
    /\ failed_invites \in SUBSET to_invite
    /\ invites_awaiting = InvitesAwaiting({}, to_invite, failed_invites)
    /\ srvTo \in [Rooms -> {"none", "invite", "join"}]
    /\ \A r \in Rooms :
         srvTo[r] \in IF r \in invites_awaiting THEN {"invite", "join"}
                      ELSE IF r \in failed_invites THEN {"none"}
                      ELSE {"join"}
    /\ toStore = [r \in Rooms |-> IF r \in to_invite THEN "none" ELSE "join"]
    /\ fromView = NoView /\ toView = NoView
    /\ pc = "loop"
    /\ err = NoErr
    /\ eplTodo = {} /\ accTodo = {} /\ pending = {} /\ invTodo = {}
    /\ epl2Todo = {}
    /\ rounds = 0
    /\ leaveTodo = {} /\ directTodo = 0
    /\ issued = [r \in Rooms |->
                  [op \in Ops |-> IF op = "invite" /\ r \in invites_awaiting
                                  THEN 1 ELSE 0]]
    /\ setLevel = NoLevel

\* main, line 248, when every change the server holds reaches to_c within
\* MaxRounds syncs: the last sync the bound allows brings them all.
ResyncInTime ==
    /\ Resync
    /\ rounds = MaxRounds - 1 => (toStore' = srvTo \/ pc' = "failed")

NextLoop ==
    \/ ResyncInTime
    \/ \E r \in Rooms : AcceptStep(r)
    \/ RetryDone
    \/ LoopExit

\* The loop keeps running: main is a single task that is polled until it ends
\* and the sync stream keeps answering.
SpecLoop == InitLoop /\ [][NextLoop]_vars /\ WF_vars(NextLoop)

\* ------------------------------------------------------------ a second run
\* The program started again with --leave-rooms after a run that ended between
\* the leave of line 454 and the set_is_direct of line 466: the source has left
\* at least one room the destination has joined, and nothing of the first run
\* but the state of the server is kept.
InitRerun ==
    /\ args \in [dryrun : {FALSE}, leave_rooms : {TRUE},
                 rooms : {{}}, rooms_excluded : {{}}]
    /\ srvFrom \in [Rooms -> {"join", "none", "leave"}]
    /\ \E r \in Rooms : srvFrom[r] = "leave"
    /\ srvTo \in [Rooms -> {"none", "invite", "join"}]
    /\ \A r \in Rooms : srvFrom[r] = "leave" => srvTo[r] = "join"
    /\ fromJoined = {}
    /\ toStore = [r \in Rooms |-> "none"]
    /\ fromView = NoView
    /\ toView = NoView
    /\ pc = "login_from"
    /\ err = NoErr
    /\ all_prev_rooms = {} /\ already_invited = {} /\ to_invite = {}
    /\ invites_to_accept = {}
    /\ eplTodo = {} /\ accTodo = {} /\ pending = {} /\ invTodo = {}
    /\ failed_invites = {} /\ epl2Todo = {}
    /\ invites_awaiting = {} /\ rounds = 0
    /\ leaveTodo = {} /\ directTodo = 0
    /\ issued = [r \in Rooms |-> [op \in Ops |-> 0]]
    /\ setLevel = NoLevel

SpecRerun == InitRerun /\ [][Next]_vars

\* ===================================================================== claims
NoCallsFor(r) == \A op \in Ops : issued[r][op] = 0
NoCalls == \A r \in Rooms : NoCallsFor(r)

\* The filtered source-joined set and the rooms the destination knows, written
\* from the snapshots (srvFrom is what from_c's only sync returned as long as
\* no leave was sent).
FilteredSourceJoined ==
    { r \in Rooms : /\ r \in fromJoined
                    /\ r \notin args.rooms_excluded
                    /\ (args.rooms = {} \/ r \in args.rooms) }
DestinationKnown == { r \in Rooms : toStore[r] \in {"join", "invite"} }
DestinationInvited == { r \in Rooms : toStore[r] = "invite" }

\* C1: a leave is sent for a room only if the member records checked in that
\* iteration of leave_room show the destination's power level >= the source's.
C1_LeaveOnlyIfDestNotLower ==
    \A r \in Rooms :
        (toView.room = r /\ issued[r]["leave"] > 0)
            => (toView.meIn /\ toView.newIn /\ toView.new >= toView.me)

C1_Witness ==
    \E r \in Rooms :
        /\ toView.room = r /\ issued[r]["leave"] = 1
        /\ toView.new > toView.me

\* C2: in a dry run no request that changes a room is sent, whatever the
\* flags and snapshots, and the while loop is never entered: the first pass is
\* the only round, also when rooms are awaited.
C2_DryRunMutatesNothing ==
    args.dryrun => (NoCalls /\ rounds = 0 /\ pc # "retry_accept")

C2_Witness ==
    /\ args.dryrun /\ args.leave_rooms
    /\ pc = "leave"
    /\ invites_awaiting # {}
    /\ toView.room # 0 /\ toView.meIn /\ toView.newIn /\ toView.new >= toView.me

\* C3: a room on the deny-list (also when on the allow-list), a room missing
\* from a non-empty allow-list and a room the source has not joined are never
\* touched: no request is sent for them and they are in none of the sets.
Untouchable(r) ==
    \/ r \in args.rooms_excluded
    \/ (args.rooms # {} /\ r \notin args.rooms)
    \/ srvFrom[r] = "none"

C3_ExcludedRoomsUntouched ==
    \A r \in Rooms :
        Untouchable(r) =>
            /\ NoCallsFor(r)
            /\ r \notin already_invited \cup to_invite \cup invites_to_accept
            /\ r \notin invites_awaiting \cup pending \cup failed_invites
            /\ r \notin all_prev_rooms \cup leaveTodo

C3_Witness ==
    /\ pc = "done"
    /\ \E r \in Rooms :
        /\ r \in args.rooms_excluded /\ r \in args.rooms
        /\ r \in fromJoined /\ toStore[r] = "invite"
    /\ \E r \in Rooms : issued[r]["leave"] > 0

\* C4: already_invited = sourceJoined \cap destinationKnown and
\* to_invite = sourceJoined \ destinationKnown; the two are disjoint and, with
\* invites_to_accept \cap sourceJoined, cover exactly the filtered
\* source-joined set.  (In pc = "first" the snapshots are those of the plan.)
C4_PlanPartitionsSourceJoined ==
    pc = "first" =>
        /\ already_invited = FilteredSourceJoined \cap DestinationKnown
        /\ to_invite = FilteredSourceJoined \ DestinationKnown
        /\ already_invited \cap to_invite = {}
        /\ already_invited \cup to_invite
             \cup (invites_to_accept \cap FilteredSourceJoined)
           = FilteredSourceJoined

C4_Witness ==
    /\ pc = "first"
    /\ already_invited # {} /\ to_invite # {}
    /\ invites_to_accept # {}

\* C5 as stated: already_invited and invites_to_accept are disjoint, and so are
\* to_invite and invites_to_accept.
C5_AcceptDisjointFromShared ==
    pc = "first" =>
        /\ already_invited \cap invites_to_accept = {}
        /\ to_invite \cap invites_to_accept = {}

\* C5, amended: invites_to_accept is a subset of already_invited (every room
\* with a pending invite counts as already shared), so the two are disjoint
\* only when no filtered source-joined room is invited; to_invite and
\* invites_to_accept are disjoint.  (Until accept_invites has joined a room
\* the store of to_c is the one the plan was made from.)
C5_AcceptWithinShared ==
    pc = "first" =>
        /\ invites_to_accept \subseteq already_invited
        /\ (accTodo = invites_to_accept
              => invites_to_accept = FilteredSourceJoined \cap DestinationInvited)
        /\ to_invite \cap invites_to_accept = {}

C5_Witness ==
    /\ pc = "first"
    /\ invites_to_accept # {} /\ to_invite # {}
    /\ already_invited \cap invites_to_accept # {}

\* C6: a rejected join of one room (err.at = "join": the server's answer to
\* invited.join()) does not end the run.
C6_JoinFailureIsRoomScoped ==
    err.at = "join" => pc # "failed"

\* C7: a rejected leave of one room (err.at = "leave") does not end the run:
\* the later rooms are examined and the run reaches logout.
C7_LeaveFailureIsRoomScoped ==
    err.at = "leave" => pc # "failed"

\* C8: when a login or the first sync fails the run ends with that error and
\* no request that changes a room has been sent.
C8_FatalBeforeAnyMutation ==
    err.at \in {"login_from", "login_to", "sync"} => (pc = "failed" /\ NoCalls)

C8_Witness ==
    /\ pc = "failed" /\ err.at = "sync"
    /\ \E r \in Rooms : srvFrom[r] = "join" /\ srvTo[r] = "invite"

\* C9: for the room of an ensure_power_levels task that found both members:
\* no update_power_levels when the target's level >= the acting account's;
\* otherwise, outside a dry run, exactly one, for the acting account's own
\* level (so above the target's level and not above the acting account's).
C9_EqualizerRaisesToOwnLevel ==
    \A r \in Rooms :
        (fromView.room = r /\ fromView.meIn /\ fromView.newIn) =>
            IF fromView.new >= fromView.me \/ args.dryrun
            THEN issued[r]["setPrivilege"] = 0 /\ setLevel = NoLevel
            ELSE /\ issued[r]["setPrivilege"] = 1
                 /\ setLevel = fromView.me
                 /\ setLevel > fromView.new

C9_Witness ==
    \E r \in Rooms :
        /\ pc = "first" /\ fromView.room = r
        /\ fromView.me > fromView.new
        /\ issued[r]["setPrivilege"] = 1 /\ setLevel = fromView.me

C11_LoopEndsOnceInvitesShow ==
    /\ <>(pc \notin {"loop", "retry_accept"})
    /\ [][ (pc = "loop" /\ invites_awaiting # {})
             => pc' \in {"loop", "retry_accept", "failed"} ]_vars
    /\ []((pc = "loop" /\ invites_awaiting # {} /\ rounds < MaxRounds)
             => ENABLED Resync)

\* The loop waited through every lagging sync the bound allows, then ended.
C11_Witness ==
    /\ pc \in {"leave_sync", "logout"} /\ rounds = MaxRounds
    /\ invites_awaiting = {}
    /\ \E r \in to_invite : issued[r]["join"] = 1

\* C12: failed_invites only grows; an invite is sent at most once per room and
\* never for a room already in failed_invites; a room of failed_invites is in
\* neither pending nor invites_awaiting nor the rooms handed to
\* accept_invites, so the while loop never waits for it.
C12_FailedInvitesNeverRetried ==
    [][ /\ failed_invites \subseteq failed_invites'
        /\ \A r \in Rooms :
             issued'[r]["invite"] # issued[r]["invite"]
                => (issued[r]["invite"] = 0 /\ r \notin failed_invites)
        /\ failed_invites' \cap (pending' \cup invites_awaiting' \cup accTodo') = {}
      ]_vars

C12_Witness ==
    /\ pc = "done" /\ rounds > 0
    /\ \E r \in failed_invites : issued[r]["invite"] = 1

\* C13: when every room of all_prev_rooms was in to_c.joined_rooms() at the
\* plan (lines 190-205: exactly then to_invite and invites_to_accept are both
\* empty), no invite and no join is sent, the while loop makes no round, the
\* pending and failed sets stay empty and the store of to_c still shows every
\* target room joined.
AllTargetsJoinedAtPlan ==
    /\ pc \notin {"login_from", "login_to", "sync", "plan"}
    /\ to_invite = {} /\ invites_to_accept = {}

C13_AllJoinedMakesNoRound ==
    AllTargetsJoinedAtPlan =>
        /\ all_prev_rooms \subseteq JoinedRooms(toStore)
        /\ \A r \in Rooms : issued[r]["invite"] = 0 /\ issued[r]["join"] = 0
        /\ rounds = 0 /\ pc # "retry_accept"
        /\ pending = {} /\ invites_awaiting = {} /\ failed_invites = {}

C13_Witness ==
    /\ pc = "done" /\ ~args.dryrun
    /\ AllTargetsJoinedAtPlan
    /\ all_prev_rooms = Rooms

\* C14: for a room of failed_invites no ensure_power_levels task reads the
\* member records and no update_power_levels is sent.  (already_invited and
\* to_invite are disjoint, so the member records of a room of failed_invites
\* can only have been read by the pass that follows send_invites.)
C14_FailedInviteSkipsEqualizer ==
    \A r \in failed_invites :
        fromView.room # r /\ issued[r]["setPrivilege"] = 0

\* C15: in a round of the while loop a room of invites_awaiting that the
\* resynced store shows neither invited nor joined is kept for the next round,
\* and a room the store shows is taken off with one join sent for it.  So the
\* list only shrinks from round to round, a round starts only while the list
\* is non-empty, and after k rounds it holds exactly the awaited rooms the
\* k-th resync did not show: it is empty after exactly k rounds when the k-th
\* resync is the first to show every awaited invite.
AwaitedRooms == to_invite \ failed_invites

C15_PendingIsWhatResyncDidNotShow ==
    /\ pc = "retry_accept" =>
          /\ invites_awaiting # {}
          /\ accTodo \cup pending \subseteq invites_awaiting
          /\ pending = { r \in invites_awaiting \ accTodo : toStore[r] = "none" }
          /\ \A r \in invites_awaiting \ (accTodo \cup pending) :
                issued[r]["join"] = 1
    /\ (pc = "loop" /\ rounds > 0) =>
          /\ invites_awaiting = { r \in AwaitedRooms : toStore[r] = "none" }
          /\ \A r \in AwaitedRooms \ invites_awaiting : issued[r]["join"] = 1

\* One awaited room, the first resync lags, the second shows the invite.
C15_Witness ==
    /\ pc = "loop" /\ rounds = 2 /\ invites_awaiting = {}
    /\ \E r \in Rooms : AwaitedRooms = {r} /\ issued[r]["join"] = 1

\* C16: accept_invites sends a join only for a room the store of to_c holds as
\* invited; a room of the list that the store shows joined gets no join.
C16_JoinOnlyForInvitedRooms ==
    [][ \A r \in Rooms :
          issued'[r]["join"] # issued[r]["join"] => toStore[r] = "invite" ]_vars

\* The number of members a room has before the source leaves it.  leave_room
\* never reads it, so it is no part of the state: the rooms are numbered by
\* size, room 1 being the room of the two accounts alone.
MemberCount(r) == r + 1

\* C17: set_is_direct is sent for a room only after the source's leave of
\* that room was sent and accepted, only when the room has no name in the
\* store of to_c, and only when the room had exactly two members before the
\* leave.
C17_DirectOnlyForTwoMemberRooms ==
    \A r \in Rooms :
        issued[r]["setDirect"] > 0 =>
            /\ issued[r]["leave"] > 0 /\ srvFrom[r] = "leave"
            /\ (toView.room = r => ~toView.named)
            /\ MemberCount(r) = 2

\* C18: a second run with --leave-rooms, started after the source left a room
\* and before set_is_direct was sent for it, sends set_is_direct for that room
\* before it ends, and sends no second leave for it.  (The rooms the first
\* run left are those the source has left without a leave of this run.)
LeftByFirstRun ==
    { r \in Rooms : srvFrom[r] = "leave" /\ issued[r]["leave"] = 0 }

C18_RerunSetsDirectFlag ==
    pc = "done" => \A r \in LeftByFirstRun : issued[r]["setDirect"] > 0

\* C19: the rooms handed to leave_room are rooms of the filtered source-joined
\* set that the store of to_c, as synced after the while loop (no sync follows
\* in the leave phase), holds as joined; a leave is sent only with
\* --leave-rooms, only once the while loop is over, and only for such a room,
\* whatever the plan had said about it.
C19_LeaveOnlyForFreshlyJoined ==
    /\ pc = "leave" =>
          leaveTodo \subseteq { r \in FilteredSourceJoined : toStore[r] = "join" }
    /\ \A r \in Rooms :
          issued[r]["leave"] > 0 =>
              /\ args.leave_rooms
              /\ pc \in {"leave", "logout", "done", "failed"}
              /\ ~LoopGoesOn
              /\ r \in FilteredSourceJoined /\ toStore[r] = "join"

\* A room the plan had put in to_invite is left.
C19_Witness ==
    \E r \in to_invite : issued[r]["leave"] = 1 /\ pc = "done"

\* C20: once the while loop is over in a run that is not a dry run and has
\* not ended with an error, nothing is awaited any more and every room of
\* to_invite and invites_to_accept is either in failed_invites or has had a
\* join sent by to_c, never both and never neither.
LoopIsOver == pc \in {"leave_sync", "leave", "logout", "done"}

C20_EveryTargetAccountedFor ==
    (LoopIsOver /\ ~args.dryrun) =>
        /\ invites_awaiting = {} /\ pending = {}
        /\ \A r \in to_invite \cup invites_to_accept :
              (r \in failed_invites) # (issued[r]["join"] > 0)

C20_Witness ==
    /\ LoopIsOver /\ ~args.dryrun
    /\ failed_invites # {}
    /\ \E r \in to_invite \ failed_invites : issued[r]["join"] > 0
====
